---- MODULE Spec2Model ----
(***************************************************************************)
(* A model of advanced-vector/vector.h: RawMemory<T> (an owning handle to  *)
(* a block of raw slots) and Vector<T> (size_ live objects in the first    *)
(* slots of its RawMemory).  The heap is explicit, so that two vectors     *)
(* holding the same block would see each other's writes.  The element      *)
(* type T is an input: its traits select the branches of the `if           *)
(* constexpr` tests, and decide which constructions may throw.             *)
(***************************************************************************)
EXTENDS Integers, Sequences, FiniteSets, TLC

\* ---------------------------------------------------------------- bounds
MaxCap == 4        \* largest capacity a vector may grow to
NBlocks == 3       \* heap blocks that can be allocated at once

\* ------------------------------------------------------ values and slots
Raw == -1          \* a slot of raw memory holding no object
Default == 0       \* T(): the value-initialised element (also a moved-from one)
\* Vector never inspects an element: two values tell any two elements apart
Val == 0..1
NoFail == -1       \* no construction throws; also: no index is returned
FailNew == -2      \* the constructor of the new element T(args...) throws
Crash == -3        \* undefined behaviour ends the process

Names == {"a", "b"}

\* while two vectors are alive, each may grow to half of MaxCap
MaxPairCap == MaxCap \div 2
\* the longest run of appends to one vector that starts empty
MaxAppends == 9

\* The element types the container is instantiated with: the answers of
\* std::is_nothrow_move_constructible_v, std::is_copy_constructible_v and
\* std::is_nothrow_copy_constructible_v, whether T() may throw, and whether
\* moving from an object changes it (to Default).  Assignments and
\* destructors of T do not throw.
ElementTypes ==
  { [name |-> "string",   nothrow_move |-> TRUE,  copy_constructible |-> TRUE,
     nothrow_copy |-> FALSE, nothrow_default |-> TRUE,  move_mutates |-> TRUE],
    [name |-> "throwing_move", nothrow_move |-> FALSE, copy_constructible |-> TRUE,
     nothrow_copy |-> FALSE, nothrow_default |-> FALSE, move_mutates |-> TRUE],
    [name |-> "noexcept_copy", nothrow_move |-> FALSE, copy_constructible |-> TRUE,
     nothrow_copy |-> TRUE,  nothrow_default |-> TRUE,  move_mutates |-> TRUE],
    [name |-> "move_only", nothrow_move |-> FALSE, copy_constructible |-> FALSE,
     nothrow_copy |-> FALSE, nothrow_default |-> FALSE, move_mutates |-> TRUE] }

VARIABLES
  T,       \* the element type (fixed at instantiation)
  heap,    \* block id -> the block's slots (<<>>: the block is free)
  live,    \* the Vector objects that exist
  vec,     \* name -> [data_: [buffer_, capacity_], size_]
  last,    \* the last call: operation, object, arguments, how it ended
  pushed   \* ghost: the values appended to "a" while it has only been appended to

vars == <<T, heap, live, vec, last, pushed>>

\* ------------------------------------------------------------- RawMemory
\* RawMemory(): buffer_ = nullptr, capacity_ = 0
EmptyRawMemory == [buffer_ |-> 0, capacity_ |-> 0]

\* operator new picks a block that is not in use
FreeBlock(h) == CHOOSE b \in 1..NBlocks : h[b] = <<>>

\* RawMemory(RawMemory&& other): the new handle, {nullptr, 0} by the member
\* initialisers, swaps both members with other
MoveRawMemory(other) == [this |-> other, other |-> EmptyRawMemory]

\* a move assignment that takes rhs's block and leaves rhs empty, the block
\* this held being forgotten
MoveAssignRawMemoryForgetting(this, rhs) == [this |-> rhs, rhs |-> EmptyRawMemory]

\* RawMemory::operator=(RawMemory&& rhs): both members are swapped with rhs
MoveAssignRawMemory(this, rhs) == [this |-> rhs, rhs |-> this]

\* RawMemory::Swap(other)
SwapRawMemory(this, other) == [this |-> other, other |-> this]

\* RawMemory::Allocate(n): nullptr when n = 0
Allocate(h, n) == IF n = 0 THEN 0 ELSE FreeBlock(h)

\* the heap after RawMemory(capacity): n raw slots at the new block
AllocatedHeap(h, n) ==
  IF n = 0 THEN h ELSE [h EXCEPT ![FreeBlock(h)] = [i \in 1..n |-> Raw]]

\* RawMemory::Deallocate(buf): operator delete(nullptr) does nothing
Deallocate(h, b) == IF b = 0 THEN h ELSE [h EXCEPT ![b] = <<>>]

\* the slots buffer_ points to
Block(h, b) == IF b = 0 THEN <<>> ELSE h[b]

SetBlock(h, b, slots) == IF b = 0 THEN h ELSE [h EXCEPT ![b] = slots]

\* new (p + k) T(...) and the assignment p[k] = ...: slot k holds v
SetSlot(slots, k, v) == [i \in 1..Len(slots) |-> IF i = k + 1 THEN v ELSE slots[i]]

\* ---------------------------------------------------------------- Vector
\* Vector(): data_ empty, size_ = 0
EmptyVector == [data_ |-> EmptyRawMemory, size_ |-> 0]

\* Vector::Size
Size(V) == V.size_

\* Vector::Capacity
Capacity(V) == V.data_.capacity_

\* the elements of slots [0, size_): what begin()..end() iterates over
Elements(h, V) == [i \in 1..V.size_ |-> Block(h, V.data_.buffer_)[i]]

\* may the constructor T(const T&) or T(T&&) throw
MayThrow(ctor) == IF ctor = "move" THEN ~T.nothrow_move ELSE ~T.nothrow_copy

\* std::destroy_n(p + from, n) / DestroyN / Destroy: the slots hold no object
DestroyN(slots, from, n) ==
  [i \in 1..Len(slots) |-> IF i > from /\ i <= from + n THEN Raw ELSE slots[i]]

\* a relocation that stops one object short
RelocateOffByOne(src, sfrom, n, dst, dfrom, ctor, failAt) ==
  LET threw == failAt >= 0 /\ failAt < n
      done  == IF threw THEN failAt ELSE n
  IN [ threw |-> threw,
       src |-> [i \in 1..Len(src) |->
                  IF ctor = "move" /\ T.move_mutates /\ src[i] # Raw
                     /\ i > sfrom /\ i <= sfrom + done
                  THEN Default ELSE src[i]],
       dst |-> IF threw THEN dst
               ELSE [i \in 1..Len(dst) |->
                       IF i > dfrom /\ i < dfrom + n
                       THEN src[sfrom + (i - dfrom)] ELSE dst[i]] ]

\* std::uninitialized_copy_n / std::uninitialized_move_n of the n objects
\* src[sfrom+1 ..] into the raw slots dst[dfrom+1 ..]; the construction of
\* the element at offset failAt throws: the objects built so far are
\* destroyed and the exception leaves; the sources already moved from stay
\* moved from.
Relocate(src, sfrom, n, dst, dfrom, ctor, failAt) ==
  LET threw == failAt >= 0 /\ failAt < n
      done  == IF threw THEN failAt ELSE n
  IN [ threw |-> threw,
       src |-> [i \in 1..Len(src) |->
                  IF ctor = "move" /\ T.move_mutates /\ src[i] # Raw
                     /\ i > sfrom /\ i <= sfrom + done
                  THEN Default ELSE src[i]],
       dst |-> IF threw THEN dst
               ELSE [i \in 1..Len(dst) |->
                       IF i > dfrom /\ i <= dfrom + n
                       THEN src[sfrom + (i - dfrom)] ELSE dst[i]] ]

\* the result of a call: the heap, the object, how the call ended, and the
\* index of the element the returned reference or iterator designates
Result(h, V, outcome, ret) == [heap |-> h, vec |-> V, outcome |-> outcome, ret |-> ret]

\* the result of an EmplaceBack or Emplace that an exception leaves after it
\* built tmp: tmp holds the slots of the new block at the moment ~tmp
\* releases it, which runs no destructor of T
Thrown(h, V, tmp) ==
  [heap |-> h, vec |-> V, outcome |-> "threw", ret |-> NoFail, tmp |-> tmp]

\* Vector::Reserve(new_capacity)
ReserveMoves == T.nothrow_move \/ ~T.copy_constructible

\* lines 209-217: the relocation into a block of new_capacity slots
ReserveGrow(h, V, new_capacity, fail) ==
  LET nb == Allocate(h, new_capacity)
      h1 == AllocatedHeap(h, new_capacity)
      ctor == IF ReserveMoves THEN "move" ELSE "copy"
      r  == Relocate(Block(h, V.data_.buffer_), 0, V.size_, Block(h1, nb), 0, ctor, fail)
  IN IF r.threw
     THEN \* new_data is released on the way out
          Result(SetBlock(h, V.data_.buffer_, r.src), V, "threw", NoFail)
     ELSE \* destroy_n the old objects, data_.Swap(new_data), ~new_data
          LET sw == SwapRawMemory(V.data_, [buffer_ |-> nb, capacity_ |-> new_capacity])
          IN Result(Deallocate(SetBlock(h1, nb, r.dst), sw.other.buffer_),
                    [V EXCEPT !.data_ = sw.this], "ok", NoFail)

\* a Reserve without the test of line 206
ReserveUnguarded(h, V, new_capacity, fail) == ReserveGrow(h, V, new_capacity, fail)

Reserve(h, V, new_capacity, fail) ==
  IF new_capacity <= Capacity(V) THEN Result(h, V, "ok", NoFail)
  ELSE ReserveGrow(h, V, new_capacity, fail)

\* the capacity EmplaceBack and Emplace grow to
\* a growth by one slot instead of line 232's doubling
GrownByOne(size) == size + 1

\* a growth by two slots instead of line 232's doubling
GrownByTwo(size) == size + 2

Grown(size) == IF size = 0 THEN 1 ELSE size * 2

\* which relocation EmplaceBack and Emplace select
EmplaceMoves == T.nothrow_move \/ ~T.nothrow_copy

\* Vector::EmplaceBack(args...): val is the value T(args...) has, fail the
\* construction that throws
EmplaceBack(h, V, val, fail) ==
  IF V.size_ = Capacity(V)
  THEN LET cap == Grown(V.size_)
           nb  == Allocate(h, cap)
           h1  == AllocatedHeap(h, cap)
           tmp == SetSlot(h1[nb], V.size_, val)
           ctor == IF EmplaceMoves THEN "move" ELSE "copy"
           r   == Relocate(Block(h, V.data_.buffer_), 0, V.size_, tmp, 0, ctor, fail)
       IN IF fail = FailNew THEN Result(h, V, "threw", NoFail)
          ELSE IF r.threw
          THEN Thrown(SetBlock(h, V.data_.buffer_, r.src), V, r.dst)
          ELSE \* destroy_n the old objects, data_ = std::move(tmp), ~tmp
               LET mv == MoveAssignRawMemory(V.data_, [buffer_ |-> nb, capacity_ |-> cap])
               IN Result(Deallocate([h1 EXCEPT ![nb] = r.dst], mv.rhs.buffer_),
                         [data_ |-> mv.this, size_ |-> V.size_ + 1],
                         "ok", V.size_)
  ELSE IF fail = FailNew THEN Result(h, V, "threw", NoFail)
       ELSE Result(SetBlock(h, V.data_.buffer_,
                            SetSlot(Block(h, V.data_.buffer_), V.size_, val)),
                   [V EXCEPT !.size_ = V.size_ + 1], "ok", V.size_)

\* Vector::PushBack(value): void, the reference EmplaceBack returns is dropped
PushBack(h, V, val, fail) == [EmplaceBack(h, V, val, fail) EXCEPT !.ret = NoFail]

\* a PopBack without the test of line 186
PopBackUnchecked(h, V) ==
  Result(SetBlock(h, V.data_.buffer_,
                  DestroyN(Block(h, V.data_.buffer_), V.size_ - 1, 1)),
         [V EXCEPT !.size_ = V.size_ - 1], "ok", NoFail)

\* a PopBack without the Destroy of line 189
PopBackNoDestroy(h, V) ==
  IF V.size_ = 0 THEN Result(h, V, "ok", NoFail)
  ELSE Result(h, [V EXCEPT !.size_ = V.size_ - 1], "ok", NoFail)

\* Vector::PopBack
PopBack(h, V) ==
  IF V.size_ = 0 THEN Result(h, V, "ok", NoFail)
  ELSE Result(SetBlock(h, V.data_.buffer_,
                       DestroyN(Block(h, V.data_.buffer_), V.size_ - 1, 1)),
              [V EXCEPT !.size_ = V.size_ - 1], "ok", NoFail)

\* Vector::Emplace(pos, args...), index = pos - begin().  val is the value
\* T(args...) has; fail is the construction that throws and exc says
\* whether what it throws derives from std::exception; ub is what the
\* undefined behaviour of lines 287-288 produces: the value found in the
\* uninitialised slot data_[size_], or Crash.
EmplaceRealloc(h, V, index, val, fail, exc) ==
  LET cap == Grown(V.size_)
      nb  == Allocate(h, cap)
      h1  == AllocatedHeap(h, cap)
      old == Block(h, V.data_.buffer_)
      tmp == SetSlot(h1[nb], index, val)
      mv  == MoveAssignRawMemory(V.data_, [buffer_ |-> nb, capacity_ |-> cap])
      installed(slots) ==
        \* std::destroy_n(data_, size_); size_++; data_ = std::move(tmp); ~tmp
        Result(Deallocate([h1 EXCEPT ![nb] = slots], mv.rhs.buffer_),
               [data_ |-> mv.this, size_ |-> V.size_ + 1], "ok", index)
      thrown(src, dst) == Thrown(SetBlock(h, V.data_.buffer_, src), V, dst)
  IN IF fail = FailNew THEN Result(h, V, "threw", NoFail)
     ELSE IF EmplaceMoves
     THEN LET r1 == Relocate(old, 0, index, tmp, 0, "move", fail)
              r2 == Relocate(r1.src, index, V.size_ - index, r1.dst, index + 1,
                             "move", fail - index)
          IN IF r1.threw THEN thrown(r1.src, r1.dst)
             ELSE IF ~r2.threw THEN installed(r2.dst)
             ELSE IF exc = "std"
             THEN \* catch (const std::exception&) { DestroyN(tmp, index); }
                  installed(DestroyN(r2.dst, 0, index))
             ELSE thrown(r2.src, r2.dst)
     ELSE LET r1 == Relocate(old, 0, index, tmp, 0, "copy", fail)
              \* catch (const std::exception&) { Destroy(tmp + index); }
              t1 == IF r1.threw THEN DestroyN(r1.dst, index, 1) ELSE r1.dst
              r2 == Relocate(old, index, V.size_ - index, t1, index + 1,
                             "copy", fail - index)
              \* catch (const std::exception&) { DestroyN(tmp, index); }
              t2 == IF r2.threw THEN DestroyN(r2.dst, 0, index) ELSE r2.dst
          IN IF r1.threw /\ exc # "std" THEN thrown(old, r1.dst)
             ELSE IF r2.threw /\ exc # "std" THEN thrown(old, r2.dst)
             ELSE installed(t2)

EmplaceInPlace(h, V, index, val, fail, ub) ==
  LET old == Block(h, V.data_.buffer_)
      n   == V.size_
  IN IF fail = FailNew THEN Result(h, V, "threw", NoFail)
     ELSE IF n = 0
     THEN Result(SetBlock(h, V.data_.buffer_, SetSlot(old, index, val)),
                 [V EXCEPT !.size_ = 1], "ok", index)
     ELSE IF ub = Crash THEN Result(h, V, "fault", NoFail)
     ELSE LET \* new (end()) T(std::move(data_[size_]))
              s1 == SetSlot(old, n, ub)
              \* std::move_backward(begin() + index, end() - 1, end())
              s2 == [i \in 1..Len(s1) |->
                       IF i > index + 1 /\ i <= n THEN s1[i - 1] ELSE s1[i]]
              \* data_[index] = std::forward<T>(tmp)
              s3 == SetSlot(s2, index, val)
          IN Result(SetBlock(h, V.data_.buffer_, s3),
                    [V EXCEPT !.size_ = n + 1], "ok", index)

Emplace(h, V, index, val, fail, exc, ub) ==
  IF V.size_ = Capacity(V)
  THEN EmplaceRealloc(h, V, index, val, fail, exc)
  ELSE EmplaceInPlace(h, V, index, val, fail, ub)

\* an Erase that destroys the last element without the shift of line 300
EraseNoShift(h, V, index) ==
  Result(SetBlock(h, V.data_.buffer_,
                  DestroyN(Block(h, V.data_.buffer_), V.size_ - 1, 1)),
         [V EXCEPT !.size_ = V.size_ - 1], "ok", index)

\* Vector::Erase(pos), index = pos - begin()
Erase(h, V, index) ==
  LET old == Block(h, V.data_.buffer_)
      \* std::move(begin() + index + 1, end(), begin() + index)
      s1 == [i \in 1..Len(old) |->
               IF i > index /\ i < V.size_ THEN old[i + 1] ELSE old[i]]
  IN Result(SetBlock(h, V.data_.buffer_, DestroyN(s1, V.size_ - 1, 1)),
            [V EXCEPT !.size_ = V.size_ - 1], "ok", index)

\* std::uninitialized_value_construct_n(p + from, n): T() in each slot; when
\* the construction at slot failAt throws, the ones built are destroyed
ValueConstructN(slots, from, n, failAt) ==
  IF failAt >= from /\ failAt < from + n THEN slots
  ELSE [i \in 1..Len(slots) |-> IF i > from /\ i <= from + n THEN Default ELSE slots[i]]

\* a Resize that shrinks without the std::destroy_n of line 175
ResizeNoDestroy(h, V, new_size, fail) ==
  IF new_size > V.size_
  THEN LET r == Reserve(h, V, new_size, fail)
           b == r.vec.data_.buffer_
       IN IF r.outcome # "ok" THEN r
          ELSE IF fail >= V.size_ /\ fail < new_size
          THEN Result(r.heap, r.vec, "threw", NoFail)
          ELSE Result(SetBlock(r.heap, b,
                               ValueConstructN(Block(r.heap, b), V.size_,
                                               new_size - V.size_, fail)),
                      [r.vec EXCEPT !.size_ = new_size], "ok", NoFail)
  ELSE Result(h, [V EXCEPT !.size_ = new_size], "ok", NoFail)

\* Vector::Resize(new_size)
Resize(h, V, new_size, fail) ==
  IF new_size > V.size_
  THEN LET r == Reserve(h, V, new_size, fail)
           b == r.vec.data_.buffer_
       IN IF r.outcome # "ok" THEN r
          ELSE IF fail >= V.size_ /\ fail < new_size
          THEN Result(r.heap, r.vec, "threw", NoFail)
          ELSE Result(SetBlock(r.heap, b,
                               ValueConstructN(Block(r.heap, b), V.size_,
                                               new_size - V.size_, fail)),
                      [r.vec EXCEPT !.size_ = new_size], "ok", NoFail)
  ELSE Result(SetBlock(h, V.data_.buffer_,
                       DestroyN(Block(h, V.data_.buffer_), new_size, V.size_ - new_size)),
              [V EXCEPT !.size_ = new_size], "ok", NoFail)

\* Vector(size_t size)
SizedVector(h, size) ==
  LET nb == Allocate(h, size)
      h1 == AllocatedHeap(h, size)
  IN Result(SetBlock(h1, nb, ValueConstructN(Block(h1, nb), 0, size, NoFail)),
            [data_ |-> [buffer_ |-> nb, capacity_ |-> size], size_ |-> size],
            "ok", NoFail)

\* a copy constructor that copies the members: both objects hold one block
CopyVectorShallow(h, v, fail) == Result(h, v, "ok", NoFail)

\* Vector(const Vector& v)
CopyVector(h, v, fail) ==
  LET nb == Allocate(h, v.size_)
      h1 == AllocatedHeap(h, v.size_)
      r  == Relocate(Block(h, v.data_.buffer_), 0, v.size_, Block(h1, nb), 0, "copy", fail)
  IN IF r.threw THEN Result(h, EmptyVector, "threw", NoFail)
     ELSE Result(SetBlock(h1, nb, r.dst),
                 [data_ |-> [buffer_ |-> nb, capacity_ |-> v.size_], size_ |-> v.size_],
                 "ok", NoFail)

\* ~Vector(): DestroyN(data_, size_), then ~RawMemory releases the block
DestroyVector(h, V) == Deallocate(h, V.data_.buffer_)

\* the result of a call on two objects
Result2(h, this, rhs, outcome) ==
  [heap |-> h, this |-> this, rhs |-> rhs, outcome |-> outcome]

\* Vector::Swap(other): data_.Swap(other.data_); std::swap(other.size_, size_)
Swap(h, this, other) ==
  LET sw == SwapRawMemory(this.data_, other.data_)
  IN Result2(h, [data_ |-> sw.this, size_ |-> other.size_],
             [data_ |-> sw.other, size_ |-> this.size_], "ok")

\* a move constructor that leaves other as it was
MoveVectorShallow(h, other) == Result2(h, other, other, "ok")

\* Vector(Vector&& other): the new object takes other's block and size
MoveVector(h, other) ==
  LET mv == MoveRawMemory(other.data_)
  IN Result2(h, [data_ |-> mv.this, size_ |-> other.size_],
             [data_ |-> mv.other, size_ |-> 0], "ok")

\* a copy assignment that always copies and swaps, without the test of line 127
CopyAssignBySwap(h, this, rhs, fail) ==
  LET c == CopyVector(h, rhs, fail)
  IN IF c.outcome # "ok" THEN Result2(h, this, rhs, "threw")
     ELSE Result2(DestroyVector(c.heap, this), c.vec, rhs, "ok")

\* Vector::operator=(const Vector& rhs), this != &rhs
CopyAssign(h, this, rhs, fail) ==
  IF rhs.size_ > Capacity(this)
  THEN LET c == CopyVector(h, rhs, fail)
       IN IF c.outcome # "ok" THEN Result2(h, this, rhs, "threw")
          ELSE \* Swap(copy); ~copy destroys what this held
               Result2(DestroyVector(c.heap, this), c.vec, rhs, "ok")
  ELSE LET mine == Block(h, this.data_.buffer_)
           from == Block(h, rhs.data_.buffer_)
           \* std::copy_n over the common prefix
           s1 == [i \in 1..Len(mine) |->
                    IF i <= rhs.size_ /\ i <= this.size_ THEN from[i] ELSE mine[i]]
       IN IF rhs.size_ < this.size_
          THEN Result2(SetBlock(h, this.data_.buffer_,
                                DestroyN(s1, rhs.size_, this.size_ - rhs.size_)),
                       [this EXCEPT !.size_ = rhs.size_], rhs, "ok")
          ELSE LET r == Relocate(from, this.size_, rhs.size_ - this.size_, s1,
                                 this.size_, "copy", fail - this.size_)
               IN IF r.threw
                  THEN Result2(SetBlock(h, this.data_.buffer_, s1), this, rhs, "threw")
                  ELSE Result2(SetBlock(h, this.data_.buffer_, r.dst),
                               [this EXCEPT !.size_ = rhs.size_], rhs, "ok")

\* Vector::operator=(Vector&& rhs) noexcept, this != &rhs: an exception
\* leaving Reserve meets the noexcept and std::terminate ends the process
MoveAssign(h, this, rhs, fail) ==
  IF rhs.size_ > Capacity(this)
  THEN LET r == Reserve(h, this, rhs.size_, fail)
       IN IF r.outcome # "ok" THEN Result2(r.heap, r.vec, rhs, "terminate")
          ELSE Swap(r.heap, r.vec, rhs)
  ELSE Swap(h, this, rhs)

\* ------------------------------------------------------------ the program
\* Addresses are compared, never inspected: after each call the blocks are
\* renumbered, the block of "a" becoming block 1 and the block of "b", when
\* it is another one, block 2.  A call leaves no other block allocated:
\* every RawMemory local to a call is destroyed on each way out of it.
Renumbered(v, x) ==
  LET pa == v["a"].data_.buffer_
      pb == v["b"].data_.buffer_
  IN IF v[x].data_.buffer_ = 0 THEN 0
     ELSE IF x = "a" \/ pb = pa THEN 1 ELSE 2

CanonHeap(h, v) ==
  LET pa == v["a"].data_.buffer_
      pb == v["b"].data_.buffer_
  IN [i \in 1..NBlocks |->
        IF i = 1 THEN Block(h, pa)
        ELSE IF i = 2 /\ pb # pa THEN Block(h, pb)
        ELSE <<>>]

CanonVec(v) ==
  [x \in Names |-> [v[x] EXCEPT !.data_.buffer_ = Renumbered(v, x)]]

\* every one of the first size_ slots holds an object
Intact(h, V) == \A i \in 1..V.size_ : Block(h, V.data_.buffer_)[i] # Raw

\* A process that std::terminate or undefined behaviour ended makes no call.
\* Nor does the model follow a process past the call that left a destroyed
\* object among the first size_ slots of a vector: whatever it does next
\* with that vector, its destructor included, is undefined.
Running ==
  /\ last.outcome \in {"ok", "threw"}
  /\ \A x \in live : Intact(heap, vec[x])

\* the capacity the model lets a vector grow to
CapLimit == IF live = Names THEN MaxPairCap ELSE MaxCap

\* the record of a call: full says whether size_ == Capacity() held at the call
Call(op, x, y, pos, val, fail, full, outcome, ret) ==
  [op |-> op, x |-> x, y |-> y, pos |-> pos, val |-> val, fail |-> fail,
   full |-> full, outcome |-> outcome, ret |-> ret]

\* ghost: the run of successful appends to "a" since it was last empty
Pushed(sizeA, appended, val) ==
  IF sizeA = 0 THEN [clean |-> TRUE, vals |-> <<>>]
  ELSE IF appended /\ pushed.clean
  THEN [clean |-> TRUE, vals |-> Append(pushed.vals, val)]
  ELSE [clean |-> FALSE, vals |-> <<>>]

\* the constructions of a relocation of n elements that may throw
RelocationFailures(moves, n) ==
  IF MayThrow(IF moves THEN "move" ELSE "copy") THEN 0..(n - 1) ELSE {}

\* T(args...) is made from a const T& (PushBack(const T&), Insert(pos,
\* const T&)) or from a T&& argument
NewElementFailures ==
  IF (T.copy_constructible /\ MayThrow("copy")) \/ MayThrow("move")
  THEN {FailNew} ELSE {}

\* the constructions that may throw in each call, what a relocation may
\* throw, and what the undefined behaviour of Emplace may produce
PushBackFailures(x) ==
  {NoFail} \cup NewElementFailures
  \cup (IF vec[x].size_ = Capacity(vec[x])
        THEN RelocationFailures(EmplaceMoves, vec[x].size_) ELSE {})

ReserveFailures(x, n) ==
  {NoFail} \cup (IF n > Capacity(vec[x])
                 THEN RelocationFailures(ReserveMoves, vec[x].size_) ELSE {})

ResizeFailures(x, n) ==
  ReserveFailures(x, n) \cup (IF T.nothrow_default THEN {} ELSE vec[x].size_..(n - 1))

Exceptions(fail) == IF fail >= 0 THEN {"std", "other"} ELSE {"std"}

Undefined(x, fail) ==
  IF vec[x].size_ < Capacity(vec[x]) /\ vec[x].size_ # 0 /\ fail # FailNew
  THEN Val \cup {Crash} ELSE {Default}

CopyAssignFailures(x, y) ==
  {NoFail}
  \cup (IF x # y /\ vec[y].size_ > Capacity(vec[x])
        THEN RelocationFailures(FALSE, vec[y].size_) ELSE {})
  \cup (IF x # y /\ vec[y].size_ <= Capacity(vec[x]) /\ MayThrow("copy")
        THEN vec[x].size_..(vec[y].size_ - 1) ELSE {})

MoveAssignFailures(x, y) ==
  {NoFail} \cup (IF x # y /\ vec[y].size_ > Capacity(vec[x])
                 THEN RelocationFailures(ReserveMoves, vec[x].size_) ELSE {})

\* one call on one object: the heap, the object and the records change
Apply(op, x, pos, val, fail, r, appended) ==
  /\ heap' = CanonHeap(r.heap, [vec EXCEPT ![x] = r.vec])
  /\ vec' = CanonVec([vec EXCEPT ![x] = r.vec])
  /\ last' = Call(op, x, x, pos, val, fail, vec[x].size_ = Capacity(vec[x]),
                  r.outcome, r.ret)
  /\ pushed' = IF x = "a" THEN Pushed(r.vec.size_, appended /\ r.outcome = "ok", val)
               ELSE pushed
  /\ UNCHANGED <<T, live>>

\* PushBack(const T&), PushBack(T&&)
DoPushBack(x, val, fail) ==
  /\ Running /\ x \in live
  /\ fail \in PushBackFailures(x)
  /\ vec[x].size_ = Capacity(vec[x]) => Grown(vec[x].size_) <= CapLimit
  /\ Apply("PushBack", x, NoFail, val, fail, PushBack(heap, vec[x], val, fail), TRUE)

\* EmplaceBack(args...) called by the program itself
DoEmplaceBack(x, val, fail) ==
  /\ Running /\ x \in live
  /\ fail \in PushBackFailures(x)
  /\ vec[x].size_ = Capacity(vec[x]) => Grown(vec[x].size_) <= CapLimit
  /\ Apply("EmplaceBack", x, NoFail, val, fail, EmplaceBack(heap, vec[x], val, fail), TRUE)

DoPopBack(x) ==
  /\ Running /\ x \in live
  /\ Apply("PopBack", x, NoFail, NoFail, NoFail, PopBack(heap, vec[x]), FALSE)

DoReserve(x, n, fail) ==
  /\ Running /\ x \in live
  /\ fail \in ReserveFailures(x, n)
  /\ Apply("Reserve", x, n, NoFail, fail, Reserve(heap, vec[x], n, fail), FALSE)

DoResize(x, n, fail) ==
  /\ Running /\ x \in live
  /\ fail \in ResizeFailures(x, n)
  /\ Apply("Resize", x, n, NoFail, fail, Resize(heap, vec[x], n, fail), FALSE)

\* Insert(pos, const T&), Insert(pos, T&&).  exc matters when a relocation
\* throws, ub when the call runs lines 287-288.
DoInsert(x, index, val, fail, exc, ub) ==
  /\ Running /\ x \in live
  /\ index \in 0..vec[x].size_
  /\ fail \in PushBackFailures(x)
  /\ exc \in Exceptions(fail) /\ ub \in Undefined(x, fail)
  /\ vec[x].size_ = Capacity(vec[x]) => Grown(vec[x].size_) <= CapLimit
  /\ Apply("Insert", x, index, val, fail,
           Emplace(heap, vec[x], index, val, fail, exc, ub), FALSE)

DoErase(x, index) ==
  /\ Running /\ x \in live
  /\ index \in 0..(vec[x].size_ - 1)
  /\ Apply("Erase", x, index, NoFail, NoFail, Erase(heap, vec[x], index), FALSE)

\* one call on two objects (the second may be the first)
Apply2(op, x, y, fail, r) ==
  /\ heap' = CanonHeap(r.heap, IF x = y THEN vec
                                ELSE [vec EXCEPT ![x] = r.this, ![y] = r.rhs])
  /\ vec' = CanonVec(IF x = y THEN vec ELSE [vec EXCEPT ![x] = r.this, ![y] = r.rhs])
  /\ last' = Call(op, x, y, NoFail, NoFail, fail, FALSE, r.outcome, NoFail)
  /\ pushed' = IF x = "a" THEN Pushed(r.this.size_, FALSE, NoFail)
               ELSE IF y = "a" THEN Pushed(r.rhs.size_, FALSE, NoFail)
               ELSE pushed

\* "b" is constructed: Vector(), Vector(size), Vector(const Vector&), Vector(Vector&&)
Construct(n) ==
  /\ Running /\ "b" \notin live /\ Capacity(vec["a"]) <= MaxPairCap
  /\ LET r == SizedVector(heap, n)
     IN /\ heap' = CanonHeap(r.heap, [vec EXCEPT !["b"] = r.vec])
        /\ vec' = CanonVec([vec EXCEPT !["b"] = r.vec])
        /\ last' = Call("Vector", "b", "b", n, NoFail, NoFail, FALSE, "ok", NoFail)
  /\ live' = Names
  /\ UNCHANGED <<T, pushed>>

CopyConstruct(fail) ==
  /\ Running /\ "b" \notin live /\ Capacity(vec["a"]) <= MaxPairCap
  /\ T.copy_constructible
  /\ fail \in {NoFail} \cup RelocationFailures(FALSE, vec["a"].size_)
  /\ LET r == CopyVector(heap, vec["a"], fail)
     IN /\ heap' = CanonHeap(r.heap, [vec EXCEPT !["b"] = r.vec])
        /\ vec' = CanonVec([vec EXCEPT !["b"] = r.vec])
        /\ last' = Call("CopyConstruct", "b", "a", NoFail, NoFail, fail, FALSE,
                        r.outcome, NoFail)
        /\ live' = IF r.outcome = "ok" THEN Names ELSE live
  /\ UNCHANGED <<T, pushed>>

MoveConstruct ==
  /\ Running /\ "b" \notin live /\ Capacity(vec["a"]) <= MaxPairCap
  /\ Apply2("MoveConstruct", "b", "a", NoFail, MoveVector(heap, vec["a"]))
  /\ live' = Names
  /\ UNCHANGED T

\* ~Vector() of "b"
Destroy ==
  /\ Running /\ "b" \in live
  /\ heap' = CanonHeap(DestroyVector(heap, vec["b"]), [vec EXCEPT !["b"] = EmptyVector])
  /\ vec' = CanonVec([vec EXCEPT !["b"] = EmptyVector])
  /\ last' = Call("Destroy", "b", "b", NoFail, NoFail, NoFail, FALSE, "ok", NoFail)
  /\ live' = {"a"}
  /\ UNCHANGED <<T, pushed>>

DoCopyAssign(x, y, fail) ==
  /\ Running /\ live = Names
  /\ T.copy_constructible
  /\ fail \in CopyAssignFailures(x, y)
  /\ Apply2("CopyAssign", x, y, fail,
            IF x = y THEN Result2(heap, vec[x], vec[y], "ok")
            ELSE CopyAssign(heap, vec[x], vec[y], fail))
  /\ UNCHANGED <<T, live>>

DoMoveAssign(x, y, fail) ==
  /\ Running /\ live = Names
  /\ fail \in MoveAssignFailures(x, y)
  /\ Apply2("MoveAssign", x, y, fail,
            IF x = y THEN Result2(heap, vec[x], vec[y], "ok")
            ELSE MoveAssign(heap, vec[x], vec[y], fail))
  /\ UNCHANGED <<T, live>>

DoSwap(x, y) ==
  /\ Running /\ live = Names
  /\ Apply2("Swap", x, y, NoFail, Swap(heap, vec[x], vec[y]))
  /\ UNCHANGED <<T, live>>

\* the program starts with "a" constructed by Vector() or Vector(size)
Init ==
  /\ T \in ElementTypes
  /\ \E n \in 0..MaxCap :
       LET r == SizedVector([b \in 1..NBlocks |-> <<>>], n)
       IN /\ heap = r.heap
          /\ vec = [x \in Names |-> IF x = "a" THEN r.vec ELSE EmptyVector]
          /\ pushed = [clean |-> n = 0, vals |-> <<>>]
          /\ last = Call("Vector", "a", "a", n, NoFail, NoFail, FALSE, "ok", NoFail)
  /\ live = {"a"}

Next ==
  \/ \E x \in live, val \in Val :
       \E fail \in PushBackFailures(x) : DoPushBack(x, val, fail)
  \/ \E x \in live, val \in Val :
       \E fail \in PushBackFailures(x) : DoEmplaceBack(x, val, fail)
  \/ \E x \in live : DoPopBack(x)
  \/ \E x \in live, n \in 0..CapLimit :
       \E fail \in ReserveFailures(x, n) : DoReserve(x, n, fail)
  \/ \E x \in live, n \in 0..CapLimit :
       \E fail \in ResizeFailures(x, n) : DoResize(x, n, fail)
  \/ \E x \in live, val \in Val :
       \E index \in 0..vec[x].size_, fail \in PushBackFailures(x) :
         \E exc \in Exceptions(fail), ub \in Undefined(x, fail) :
           DoInsert(x, index, val, fail, exc, ub)
  \/ \E x \in live : \E index \in 0..(vec[x].size_ - 1) : DoErase(x, index)
  \/ \E n \in 0..MaxPairCap : Construct(n)
  \/ \E fail \in {NoFail} \cup RelocationFailures(FALSE, vec["a"].size_) :
       CopyConstruct(fail)
  \/ MoveConstruct
  \/ Destroy
  \/ \E x \in live, y \in live :
       \E fail \in CopyAssignFailures(x, y) : DoCopyAssign(x, y, fail)
  \/ \E x \in live, y \in live :
       \E fail \in MoveAssignFailures(x, y) : DoMoveAssign(x, y, fail)
  \/ \E x \in live, y \in live : DoSwap(x, y)

Spec == Init /\ [][Next]_vars

\* --------------------------------------------- RawMemory used on its own
\* A program that holds RawMemory<T> objects "a" and "b" directly: vec[x].data_
\* is the handle x (size_ stays 0), live the handles that exist.  Blocks keep
\* the identity operator new gave them.
RawStep(op, x, y, n, h, handles, alive) ==
  /\ heap' = h
  /\ vec' = [z \in Names |-> [data_ |-> handles[z], size_ |-> 0]]
  /\ live' = alive
  /\ last' = Call(op, x, y, n, NoFail, NoFail, FALSE, "ok", NoFail)
  /\ UNCHANGED <<T, pushed>>

\* the handles as they are
Handles == [z \in Names |-> vec[z].data_]

\* RawMemory<T> x(n)
ConstructRawMemory(x, n) ==
  /\ x \notin live
  /\ n = 0 \/ \E b \in 1..NBlocks : heap[b] = <<>>
  /\ RawStep("RawMemory", x, x, n, AllocatedHeap(heap, n),
             [Handles EXCEPT ![x] = [buffer_ |-> Allocate(heap, n), capacity_ |-> n]],
             live \cup {x})

\* RawMemory<T> x(std::move(y))
MoveConstructRawMemory(x, y) ==
  /\ x \notin live /\ y \in live
  /\ LET mv == MoveRawMemory(vec[y].data_)
     IN RawStep("RawMemoryMove", x, y, NoFail, heap,
                [Handles EXCEPT ![x] = mv.this, ![y] = mv.other], live \cup {x})

\* x = std::move(y); x and y may be one object
DoMoveAssignRawMemory(x, y) ==
  /\ x \in live /\ y \in live
  /\ LET mv == MoveAssignRawMemory(vec[x].data_, vec[y].data_)
     IN RawStep("RawMemoryMoveAssign", x, y, NoFail, heap,
                IF x = y THEN Handles
                ELSE [Handles EXCEPT ![x] = mv.this, ![y] = mv.rhs], live)

\* x.Swap(y)
DoSwapRawMemory(x, y) ==
  /\ x \in live /\ y \in live
  /\ LET sw == SwapRawMemory(vec[x].data_, vec[y].data_)
     IN RawStep("RawMemorySwap", x, y, NoFail, heap,
                IF x = y THEN Handles
                ELSE [Handles EXCEPT ![x] = sw.this, ![y] = sw.other], live)

\* ~RawMemory() of x: Deallocate(buffer_)
DestroyRawMemory(x) ==
  /\ x \in live
  /\ RawStep("RawMemoryDestroy", x, x, NoFail, Deallocate(heap, vec[x].data_.buffer_),
             [Handles EXCEPT ![x] = EmptyRawMemory], live \ {x})

RawInit ==
  /\ T \in ElementTypes
  /\ heap = [b \in 1..NBlocks |-> <<>>]
  /\ vec = [x \in Names |-> EmptyVector]
  /\ live = {}
  /\ pushed = [clean |-> TRUE, vals |-> <<>>]
  /\ last = Call("main", "a", "a", NoFail, NoFail, NoFail, FALSE, "ok", NoFail)

RawNext ==
  \/ \E x \in Names, n \in 0..MaxCap : ConstructRawMemory(x, n)
  \/ \E x \in Names, y \in Names : MoveConstructRawMemory(x, y)
  \/ \E x \in Names, y \in Names : DoMoveAssignRawMemory(x, y)
  \/ \E x \in Names, y \in Names : DoSwapRawMemory(x, y)
  \/ \E x \in Names : DestroyRawMemory(x)

RawSpec == RawInit /\ [][RawNext]_vars

\* ------------------------------------------------- a run of appends
\* A program that constructs "a" empty and only appends to it, no
\* construction throwing.  Here pushed has a third field, relocated: the
\* number of elements the appends so far have move- or copy-constructed
\* from the old block into a new one.

\* the elements an EmplaceBack on V relocates (lines 235-239): all size_ of
\* them when it finds the block full, none otherwise
EmplaceBackRelocations(V) == IF V.size_ = Capacity(V) THEN V.size_ ELSE 0

AppendStep(op, val, r) ==
  /\ heap' = CanonHeap(r.heap, [vec EXCEPT !["a"] = r.vec])
  /\ vec' = CanonVec([vec EXCEPT !["a"] = r.vec])
  /\ last' = Call(op, "a", "a", NoFail, val, NoFail,
                  vec["a"].size_ = Capacity(vec["a"]), r.outcome, r.ret)
  /\ pushed' = [clean |-> TRUE, vals |-> Append(pushed.vals, val),
                relocated |-> pushed.relocated + EmplaceBackRelocations(vec["a"])]
  /\ UNCHANGED <<T, live>>

AppendPushBack(val) ==
  /\ Len(pushed.vals) < MaxAppends
  /\ AppendStep("PushBack", val, PushBack(heap, vec["a"], val, NoFail))

AppendEmplaceBack(val) ==
  /\ Len(pushed.vals) < MaxAppends
  /\ AppendStep("EmplaceBack", val, EmplaceBack(heap, vec["a"], val, NoFail))

AppendInit ==
  /\ T \in ElementTypes
  /\ heap = [b \in 1..NBlocks |-> <<>>]
  /\ vec = [x \in Names |-> EmptyVector]
  /\ live = {"a"}
  /\ pushed = [clean |-> TRUE, vals |-> <<>>, relocated |-> 0]
  /\ last = Call("Vector", "a", "a", 0, NoFail, NoFail, FALSE, "ok", NoFail)

AppendNext ==
  \/ \E val \in Val : AppendPushBack(val)
  \/ \E val \in Val : AppendEmplaceBack(val)

AppendSpec == AppendInit /\ [][AppendNext]_vars

\* ------------------------------------------------------------ the claims
\* what begin()..end() of x iterates over, before and after a step
Elems(x) == Elements(heap, vec[x])
ElemsAfter(x) == Elements(heap', vec'[x])

\* the sequence s with v put before its element of index p
InsertAt(s, p, v) == SubSeq(s, 1, p) \o <<v>> \o SubSeq(s, p + 1, Len(s))

\* size, capacity and elements of x are what they were before the step
Untouched(x) ==
  /\ Size(vec'[x]) = Size(vec[x])
  /\ Capacity(vec'[x]) = Capacity(vec[x])
  /\ ElemsAfter(x) = Elems(x)

\* C1: in every reachable state, every vector has 0 <= Size() <= Capacity().
C1_SizeWithinCapacity ==
  \A x \in Names : 0 <= Size(vec[x]) /\ Size(vec[x]) <= Capacity(vec[x])

\* two vectors, one full and one with spare capacity, have just been swapped
C1_Witness ==
  /\ live = Names /\ last.op = "Swap" /\ last.x # last.y
  /\ Size(vec["a"]) = 2 /\ Capacity(vec["a"]) = 2
  /\ Size(vec["b"]) = 1 /\ Capacity(vec["b"]) = 2

\* C2: an Insert(p, v) that returns leaves s[0..p) ++ [v] ++ s[p..size), the
\* size one larger, and returns an iterator to index p, whether or not it
\* reallocates.
C2_InsertPlacesValue ==
  [][(last'.op = "Insert" /\ last'.fail = NoFail /\ last'.outcome = "ok")
     => /\ ElemsAfter(last'.x) = InsertAt(Elems(last'.x), last'.pos, last'.val)
        /\ Size(vec'[last'.x]) = Size(vec[last'.x]) + 1
        /\ last'.ret = last'.pos]_vars

\* C3: when a relocation of Insert on a full vector throws, the exception
\* reaches the caller and size, capacity and elements are what they were.
C3_InsertRelocationFailureIsStrong ==
  [][(last'.op = "Insert" /\ last'.full /\ last'.fail >= 0)
     => last'.outcome = "threw" /\ Untouched(last'.x)]_vars

\* C4: when a relocation of Reserve or PushBack throws, size, capacity and
\* elements (the values of the source elements included) are what they were,
\* for every T whose move constructor may throw.
C4_GrowthFailureIsStrong ==
  [][(last'.op \in {"Reserve", "PushBack", "EmplaceBack"} /\ last'.fail >= 0 /\ ~T.nothrow_move)
     => last'.outcome = "threw" /\ Untouched(last'.x)]_vars

\* C5, as claimed: N successive appends to an empty vector leave [v1..vN],
\* and each PushBack or EmplaceBack returns a reference to the element of
\* index size - 1.
C5_AppendsReturnLast ==
  /\ pushed.clean => Elems("a") = pushed.vals /\ Size(vec["a"]) = Len(pushed.vals)
  /\ (last.op \in {"PushBack", "EmplaceBack"} /\ last.outcome = "ok")
       => last.ret = Size(vec[last.x]) - 1

\* C5, amended: N successive appends to an empty vector leave [v1..vN]; each
\* EmplaceBack returns a reference to the element of index size - 1, PushBack
\* returns nothing.
C5_AppendsInOrder ==
  /\ pushed.clean => Elems("a") = pushed.vals /\ Size(vec["a"]) = Len(pushed.vals)
  /\ (last.op = "EmplaceBack" /\ last.outcome = "ok")
       => last.ret = Size(vec[last.x]) - 1
  /\ last.op = "PushBack" => last.ret = NoFail

\* three appends of values not all equal to an empty vector; the third, an
\* EmplaceBack, found the block of 2 slots full and moved to one of 4
C5_Witness ==
  /\ pushed.clean /\ Len(pushed.vals) = 3 /\ pushed.vals[1] # pushed.vals[2]
  /\ Capacity(vec["a"]) = 4
  /\ last.op = "EmplaceBack" /\ last.x = "a" /\ last.outcome = "ok" /\ last.full

\* C6: in every state, for every position p in [0, size], Insert(p, v)
\* followed by Erase(p) leaves the sequence and the size it started from.
C6_InsertEraseRoundTrip ==
  \A x \in live :
    (Running /\ Capacity(vec[x]) <= MaxPairCap) =>
      \A p \in 0..vec[x].size_, v \in Val, ub \in Undefined(x, NoFail) :
        LET r1 == Emplace(heap, vec[x], p, v, NoFail, "std", ub)
            r2 == Erase(r1.heap, r1.vec, p)
        IN r1.outcome = "ok" =>
             /\ Elements(r2.heap, r2.vec) = Elems(x)
             /\ Size(r2.vec) = Size(vec[x])

\* C7, as claimed: after a move of A into B, by construction or by assignment,
\* A has size 0 and capacity 0 and B holds the sequence A held.
C7_MovedFromIsEmpty ==
  [][(last'.op \in {"MoveConstruct", "MoveAssign"} /\ last'.x # last'.y
        /\ last'.outcome = "ok")
     => /\ Size(vec'[last'.y]) = 0 /\ Capacity(vec'[last'.y]) = 0
        /\ ElemsAfter(last'.x) = Elems(last'.y)]_vars

\* C7, amended: after a move of A into B, B holds the sequence A held, in A's
\* block.  After a move construction A has size 0 and capacity 0; after a move
\* assignment A holds the sequence B held, and its capacity is the larger of
\* B's capacity and A's size before the call.
C7_MoveTransfers ==
  [][(last'.op \in {"MoveConstruct", "MoveAssign"} /\ last'.x # last'.y
        /\ last'.outcome = "ok")
     => LET A == last'.y
            B == last'.x
        IN /\ ElemsAfter(B) = Elems(A)
           /\ Capacity(vec'[B]) = Capacity(vec[A])
           /\ last'.op = "MoveConstruct"
                => Size(vec'[A]) = 0 /\ Capacity(vec'[A]) = 0
           /\ last'.op = "MoveAssign"
                => /\ ElemsAfter(A) = Elems(B)
                   /\ Capacity(vec'[A]) =
                        IF Size(vec[A]) > Capacity(vec[B])
                        THEN Size(vec[A]) ELSE Capacity(vec[B])]_vars

\* a move assignment of two elements into a vector of one has returned
C7_Witness ==
  /\ last.op = "MoveAssign" /\ last.x = "b" /\ last.y = "a" /\ last.outcome = "ok"
  /\ Size(vec["b"]) = 2 /\ Size(vec["a"]) = 1 /\ Capacity(vec["a"]) = 2
  /\ Elems("b")[1] # Elems("b")[2]

\* the calls that are made on one vector
OneVectorOps ==
  {"PushBack", "EmplaceBack", "PopBack", "Reserve", "Resize", "Insert", "Erase"}

\* the other object
Other(x) == IF x = "a" THEN "b" ELSE "a"

\* C8: no two vectors hold the same block, whatever copies, moves and swaps
\* were made, and a call on one vector leaves the size and the elements of
\* the other as they were.
C8_CopyIndependence ==
  [][/\ live' = Names =>
          \/ vec'["a"].data_.buffer_ # vec'["b"].data_.buffer_
          \/ vec'["a"].data_.buffer_ = 0
     /\ (live = Names /\ last'.op \in OneVectorOps)
          => /\ Size(vec'[Other(last'.x)]) = Size(vec[Other(last'.x)])
             /\ ElemsAfter(Other(last'.x)) = Elems(Other(last'.x))]_vars

\* "b", a copy of "a", has been appended to, and "a" is as it was
C8_Witness ==
  /\ live = Names /\ last.op = "PushBack" /\ last.x = "b" /\ last.outcome = "ok"
  /\ Size(vec["a"]) = 1 /\ Elems("a")[1] = 1
  /\ Elems("b") = Append(Elems("a"), 0)

\* C9: a Reserve(n) that returns leaves the size and the elements as they
\* were; the capacity is as it was when n <= capacity, else it is n.
C9_ReserveFrame ==
  [][(last'.op = "Reserve" /\ last'.outcome = "ok")
     => /\ Capacity(vec'[last'.x]) =
             IF last'.pos <= Capacity(vec[last'.x])
             THEN Capacity(vec[last'.x]) ELSE last'.pos
        /\ Size(vec'[last'.x]) = Size(vec[last'.x])
        /\ ElemsAfter(last'.x) = Elems(last'.x)]_vars

\* Reserve(4) has moved two elements that differ out of a block of 2 slots
C9_Witness ==
  /\ last.op = "Reserve" /\ last.x = "a" /\ last.pos = 4 /\ last.full
  /\ last.outcome = "ok"
  /\ Capacity(vec["a"]) = 4 /\ Size(vec["a"]) = 2
  /\ Elems("a")[1] # Elems("a")[2]

\* C10: Insert at index size does what EmplaceBack of the same value does from
\* the same state: it returns, and the size, the capacity and the elements
\* are the same, the vector full or not, empty or not.
C10_InsertAtEndIsEmplaceBack ==
  [][(last'.op = "Insert" /\ last'.pos = Size(vec[last'.x]) /\ last'.fail = NoFail)
     => LET r == EmplaceBack(heap, vec[last'.x], last'.val, NoFail)
        IN /\ last'.outcome = "ok"
           /\ Size(vec'[last'.x]) = Size(r.vec)
           /\ Capacity(vec'[last'.x]) = Capacity(r.vec)
           /\ ElemsAfter(last'.x) = Elements(r.heap, r.vec)]_vars

\* the sequence s without its element of index p
RemoveAt(s, p) == SubSeq(s, 1, p) \o SubSeq(s, p + 2, Len(s))

\* C11: Erase(p) with 0 <= p < size leaves s[0..p) ++ s[p+1..size), the size
\* one smaller, the capacity as it was, and returns an iterator to index p.
C11_EraseRemovesOne ==
  [][last'.op = "Erase"
     => \A x \in Names : \A p \in 0..MaxCap :
          (last'.x = x /\ last'.pos = p)
          => /\ last'.outcome = "ok"
             /\ ElemsAfter(x) = RemoveAt(Elems(x), p)
             /\ Size(vec'[x]) = Size(vec[x]) - 1
             /\ Capacity(vec'[x]) = Capacity(vec[x])
             /\ last'.ret = p]_vars

\* the first of three elements has been erased, the two left differ
C11_Witness ==
  /\ last.op = "Erase" /\ last.x = "a" /\ last.pos = 0 /\ last.outcome = "ok"
  /\ Size(vec["a"]) = 2 /\ Capacity(vec["a"]) = 3
  /\ Elems("a")[1] # Elems("a")[2]

\* C12: a copy assignment B = A that returns, A and B distinct, leaves B with
\* A's size and elements and A as it was; when A.size <= B.capacity B keeps
\* its block and its capacity, else B's capacity is A.size.  B = B changes
\* nothing.
C12_CopyAssignCopies ==
  [][(last'.op = "CopyAssign" /\ last'.outcome = "ok")
     => \A B \in Names, A \in Names : \A fail \in -1..MaxCap :
          (last'.x = B /\ last'.y = A /\ last'.fail = fail)
          => IF A = B THEN Untouched(B) /\ heap' = heap
             ELSE /\ ElemsAfter(B) = Elems(A)
                  /\ Size(vec'[B]) = Size(vec[A])
                  /\ Untouched(A)
                  /\ IF Size(vec[A]) <= Capacity(vec[B])
                     THEN /\ Capacity(vec'[B]) = Capacity(vec[B])
                          /\ CopyAssign(heap, vec[B], vec[A], fail).this.data_
                               = vec[B].data_
                     ELSE Capacity(vec'[B]) = Size(vec[A])]_vars

\* "b", of capacity 2, has been assigned the one element of "a" in its own block
C12_Witness ==
  /\ live = Names /\ last.op = "CopyAssign" /\ last.x = "b" /\ last.y = "a"
  /\ last.outcome = "ok"
  /\ Size(vec["a"]) = 1 /\ Elems("a")[1] = 1 /\ Capacity(vec["a"]) = 1
  /\ Elems("b") = Elems("a") /\ Capacity(vec["b"]) = 2

\* the slots of the block x holds, before and after a step
Slots(x) == Block(heap, vec[x].data_.buffer_)
SlotsAfter(x) == Block(heap', vec'[x].data_.buffer_)

\* C13: a Resize(n) that returns leaves size n and capacity max(capacity, n);
\* the first min(size, n) elements are as they were, the elements of
\* [size, n) are value-initialised, and the objects of [n, size) are
\* destroyed: no slot from n on holds an object.
C13_ResizeSetsSize ==
  [][(last'.op = "Resize" /\ last'.outcome = "ok")
     => \A x \in Names : \A n \in 0..MaxCap :
          (last'.x = x /\ last'.pos = n)
          => /\ Size(vec'[x]) = n
             /\ Capacity(vec'[x]) =
                  IF n > Capacity(vec[x]) THEN n ELSE Capacity(vec[x])
             /\ \A i \in 1..n :
                  ElemsAfter(x)[i] = IF i <= Size(vec[x]) THEN Elems(x)[i] ELSE Default
             /\ \A i \in (n + 1)..Capacity(vec'[x]) : SlotsAfter(x)[i] = Raw]_vars

\* Resize(3) has moved the one element of a full block of 1 slot and added two
C13_Witness ==
  /\ last.op = "Resize" /\ last.x = "a" /\ last.pos = 3 /\ last.full
  /\ last.outcome = "ok"
  /\ Size(vec["a"]) = 3 /\ Capacity(vec["a"]) = 3
  /\ Elems("a") = <<1, Default, Default>>

\* C14: PopBack on an empty vector returns and changes nothing; on a vector
\* that is not empty it destroys the last element only: the size is one
\* smaller, the capacity and the other elements are as they were.
C14_PopBackFrame ==
  [][last'.op = "PopBack"
     => \A x \in Names :
          last'.x = x
          => /\ last'.outcome = "ok"
             /\ Capacity(vec'[x]) = Capacity(vec[x])
             /\ IF Size(vec[x]) = 0 THEN Untouched(x) /\ heap' = heap
                ELSE /\ Size(vec'[x]) = Size(vec[x]) - 1
                     /\ ElemsAfter(x) = SubSeq(Elems(x), 1, Size(vec[x]) - 1)
                     /\ SlotsAfter(x)[Size(vec[x])] = Raw
                     /\ \A i \in (Size(vec[x]) + 1)..Capacity(vec[x]) :
                          SlotsAfter(x)[i] = Slots(x)[i]]_vars

\* the second of two elements has been removed, the first is still there
C14_Witness ==
  /\ last.op = "PopBack" /\ last.x = "a" /\ last.outcome = "ok"
  /\ Size(vec["a"]) = 1 /\ Capacity(vec["a"]) = 2
  /\ Elems("a")[1] = 1 /\ Slots("a")[2] = Raw

\* every block that is allocated is held by one handle that exists, with the
\* capacity it was allocated with, and a handle holds no block that is not
\* allocated: the destructors release each block once, none twice, none never
EachBlockOwnedOnce ==
  /\ \A x \in live :
       /\ vec[x].data_.buffer_ = 0 <=> vec[x].data_.capacity_ = 0
       /\ vec[x].data_.buffer_ # 0
            => Len(heap[vec[x].data_.buffer_]) = vec[x].data_.capacity_
  /\ \A b \in 1..NBlocks :
       heap[b] # <<>> => Cardinality({x \in live : vec[x].data_.buffer_ = b}) = 1

RawMoves == {"RawMemoryMove", "RawMemoryMoveAssign"}

\* C15, as claimed: after a RawMemory move construction or move assignment the
\* destination holds the block and capacity the source held and the source
\* is empty, whatever the destination held; a block is released exactly once.
C15_RawMoveEmptiesSource ==
  [][last'.op \in RawMoves
     => \A x \in Names, y \in Names :
          (last'.x = x /\ last'.y = y /\ x # y)
          => /\ vec'[x].data_ = vec[y].data_
             /\ vec'[y].data_ = EmptyRawMemory
             /\ EachBlockOwnedOnce']_vars

\* C15, amended: after a RawMemory move construction or move assignment the
\* destination holds the block and capacity the source held.  After a move
\* construction the source is empty; after a move assignment the source
\* holds the block and capacity the destination held.  Each block is held
\* by exactly one handle, and its destructor releases it.
C15_RawMoveTransfers ==
  [][/\ EachBlockOwnedOnce'
     /\ last'.op \in RawMoves
          => \A x \in Names, y \in Names :
               (last'.x = x /\ last'.y = y /\ x # y)
               => /\ vec'[x].data_ = vec[y].data_
                  /\ vec'[y].data_ = IF last'.op = "RawMemoryMove"
                                     THEN EmptyRawMemory ELSE vec[x].data_
     /\ last'.op = "RawMemoryDestroy"
          => \A x \in Names :
               (last'.x = x /\ vec[x].data_.buffer_ # 0)
               => /\ heap[vec[x].data_.buffer_] # <<>>
                  /\ heap'[vec[x].data_.buffer_] = <<>>]_vars

\* "a", which held a block of 2 slots, has been move-assigned the block of 1
\* slot "b" held
C15_Witness ==
  /\ last.op = "RawMemoryMoveAssign" /\ last.x = "a" /\ last.y = "b"
  /\ live = Names
  /\ vec["a"].data_.capacity_ = 1 /\ vec["b"].data_.capacity_ = 2
  /\ vec["a"].data_.buffer_ # 0 /\ vec["b"].data_.buffer_ # 0

\* C16: no call reads, moves from, assigns to or destroys a slot at or past
\* size_ as if it held an object: no call ends in the fault such a read can
\* give, the slots at and past size_ hold no object after any call, and an
\* Insert into spare capacity before the end builds the new last element
\* from the element that was last, so that element is the last one after it.
C16_NoUseOfSlotsPastSize ==
  [][/\ last'.outcome # "fault"
     /\ \A x \in live' :
          \A i \in (Size(vec'[x]) + 1)..Capacity(vec'[x]) : SlotsAfter(x)[i] = Raw
     /\ (last'.op = "Insert" /\ ~last'.full /\ last'.outcome = "ok")
          => \A x \in Names :
               (last'.x = x /\ last'.pos < Size(vec[x]))
               => ElemsAfter(x)[Size(vec[x]) + 1] = Elems(x)[Size(vec[x])]]_vars

\* C17: Reserve, EmplaceBack on a full vector and Emplace on a full vector
\* select the relocation the same way: the elements are moved exactly when T
\* is nothrow-move-constructible or not copy-constructible; otherwise they
\* are copied, and when a copy throws no element of the vector has changed.
C17_OneRelocationPolicy ==
  [][/\ EmplaceMoves <=> ReserveMoves
     /\ ReserveMoves <=> (T.nothrow_move \/ ~T.copy_constructible)
     /\ (/\ last'.op \in {"Reserve", "PushBack", "EmplaceBack", "Insert"}
         /\ last'.fail >= 0
         /\ T.copy_constructible /\ ~T.nothrow_move)
          => \A x \in Names : last'.x = x => ElemsAfter(x) = Elems(x)]_vars

\* the slots of a block hold no object
NoObjects(slots) == \A i \in 1..Len(slots) : slots[i] = Raw

\* C18: when a construction throws while EmplaceBack (PushBack) or Emplace
\* (Insert) relocates into a new block, the exception reaches the caller,
\* every object built in the new block, the new element included, has been
\* destroyed when the block is released, and the block is released.
C18_FailedGrowthCleansNewBlock ==
  [][(/\ last'.op \in {"PushBack", "EmplaceBack", "Insert"}
      /\ last'.full /\ last'.fail >= 0)
     => /\ last'.outcome = "threw"
        /\ \A x \in Names :
             last'.x = x =>
               \A exc \in Exceptions(last'.fail) :
                 LET r == IF last'.op = "Insert"
                          THEN Emplace(heap, vec[x], last'.pos, last'.val,
                                       last'.fail, exc, Default)
                          ELSE EmplaceBack(heap, vec[x], last'.val, last'.fail)
                 IN r.outcome = "threw"
                      => /\ NoObjects(r.tmp)
                         /\ r.heap[Allocate(heap, Grown(Size(vec[x])))] = <<>>]_vars

Appends == {"PushBack", "EmplaceBack"}

\* C19: PushBack, EmplaceBack and Insert (Emplace) change the capacity only
\* when size == capacity at the call, and the new capacity is then 1 if the
\* old one was 0 and twice the old one otherwise; with spare capacity they
\* keep the block.  A Reserve(n) that returns on an empty vector leaves
\* size 0 and capacity n (the old capacity if n is not larger), so that the
\* next n appends find spare capacity and reallocate nothing.
C19_GrowthDoublesOnlyWhenFull ==
  [][\A x \in Names :
       last'.x = x =>
         LET size == Size(vec[x])
             cap  == Capacity(vec[x])
         IN /\ last'.op \in Appends \cup {"Insert"} =>
                 /\ Capacity(vec'[x]) # cap
                      => size = cap /\ Capacity(vec'[x]) = IF cap = 0 THEN 1 ELSE 2 * cap
                 /\ (size = cap /\ last'.outcome = "ok")
                      => Capacity(vec'[x]) = IF cap = 0 THEN 1 ELSE 2 * cap
                 /\ size < cap =>
                      IF last'.op = "Insert"
                      THEN \A ub \in Val \cup {Crash} :
                             Emplace(heap, vec[x], last'.pos, last'.val,
                                     last'.fail, "std", ub).vec.data_ = vec[x].data_
                      ELSE EmplaceBack(heap, vec[x], last'.val,
                                       last'.fail).vec.data_ = vec[x].data_
            /\ (last'.op = "Reserve" /\ size = 0 /\ last'.outcome = "ok") =>
                 /\ Size(vec'[x]) = 0
                 /\ Capacity(vec'[x]) = IF last'.pos > cap THEN last'.pos ELSE cap]_vars

\* "a" was empty with a capacity of 3, which no doubling from 0 gives, and
\* three appends have filled it: none of them changed the capacity
C19_Witness ==
  /\ last.op \in Appends /\ last.x = "a" /\ last.outcome = "ok" /\ ~last.full
  /\ pushed.clean /\ Len(pushed.vals) = 3
  /\ Size(vec["a"]) = 3 /\ Capacity(vec["a"]) = 3

\* C20: after N >= 1 appends to a vector that started empty, the appends
\* have relocated fewer than 2 * N elements in total.
C20_RelocationsAreAmortized ==
  LET N == Len(pushed.vals)
  IN /\ Size(vec["a"]) = N /\ Elems("a") = pushed.vals
     /\ N >= 1 => pushed.relocated < 2 * N

\* nine appends: the blocks of 1, 2, 4 and 8 slots were found full and
\* 1 + 2 + 4 + 8 elements relocated
C20_Witness ==
  /\ Len(pushed.vals) = 9 /\ Size(vec["a"]) = 9 /\ Capacity(vec["a"]) = 16
  /\ pushed.relocated = 15

====
